---- MODULE Spec2Model ----
(***************************************************************************)
(* A model of google-authz: the Credentials builder and its resolution     *)
(* chain (src/credentials), the Token value and the Response -> Token      *)
(* conversion (src/auth/oauth2/token.rs), the metadata path-and-query      *)
(* construction and the Metadata fetcher (src/auth/oauth2/metadata.rs),    *)
(* the service-account JWT-bearer fetcher                                  *)
(* (src/auth/oauth2/service_account.rs), and fetch() calls made            *)
(* concurrently on one fetcher.                                            *)
(*                                                                         *)
(* Conventions.                                                            *)
(*  - A Rust String is a sequence of tokens; a token is one character      *)
(*    ("?", "#", " ", ...) or a run of unreserved characters ("a",         *)
(*    "scope1").  Flat(s) is the string the tokens spell.                  *)
(*  - Option<T> is a sequence of length 0 (None) or 1 (Some(x)).           *)
(*  - Result<T, E> is [tag |-> "Ok" | "Err", val |-> ...]; a panic         *)
(*    (unwrap / expect / assert_eq! failing) is the third tag "Panic".     *)
(***************************************************************************)
EXTENDS Integers, Sequences, FiniteSets

VARIABLES
    builder,    \* credentials::Builder: [scopes, audience, source]
    env,        \* the process environment the resolution reads
    outcome,    \* <<>> before build(), <<r>> once build() has ended with r
    reads,      \* the sources build() consulted, in order
    response,   \* the token::Response at hand (Option)
    now,        \* Instant::now(), seconds
    token,      \* Option of the result of Token::try_from(response)
    checked,    \* Option of [at, expired]: the last Token::expired(at) answer
    meta,       \* inputs of metadata::path_and_query (Option)
    pq,         \* Option of the string path_and_query returned
    sa,         \* the credentials::ServiceAccount handed to the fetcher
    fetcher,    \* Option of the result of oauth2::ServiceAccount::new(sa)
    wall,       \* SystemTime: seconds since the UNIX epoch
    fetched,    \* the fetch() calls made, each with the claims it signed
    mfetcher,   \* Option of the result of oauth2::Metadata::new(credentials)
    calls,      \* the fetch() calls on mfetcher: the future each returned
    sent        \* the requests the gcemeta client was given, in order

vars == <<builder, env, outcome, reads, response, now, token, checked,
          meta, pq, sa, fetcher, wall, fetched, mfetcher, calls, sent>>

resolveVars == <<builder, env, outcome, reads>>
tokenVars   == <<response, now, token, checked>>
pathVars    == <<meta, pq>>
fetchVars   == <<mfetcher, calls, sent>>
saVars      == <<sa, fetcher, wall, fetched>>

-----------------------------------------------------------------------------
(* Bounds of the model *)

\* longest API key / account override, in characters
MaxKeyLen == 2

\* longest token_type / access_token / id_token of a reply, in characters
MaxFieldLen == 2

\* the width the model gives the 64-bit integers: expires_in is unsigned of
\* this width, the seconds of an Instant are signed of this width
IntBits == 14

\* latest Instant::now() of a conversion, and latest `at` of an expiry check
MaxNow == 2
MaxAt == 30

\* most scopes in a list handed to path_and_query
MaxScopes == 2

\* the clock readings of the service-account fetcher, seconds since the
\* epoch: from MinWall (issued_at subtracts ten seconds) to MaxWall
MinWall == 10
MaxWall == 12

\* most fetch() calls on one fetcher
MaxFetches == 2

-----------------------------------------------------------------------------
(* Rust values *)

None == <<>>
Some(x) == <<x>>
IsSome(o) == Len(o) = 1
Unwrap(o) == o[1]

Ok(v) == [tag |-> "Ok", val |-> v]
Err(e) == [tag |-> "Err", val |-> e]
Panic(m) == [tag |-> "Panic", val |-> m]

RECURSIVE Flat(_)
Flat(s) == IF s = <<>> THEN "" ELSE Head(s) \o Flat(Tail(s))

SeqsUpTo(S, n) == UNION {[1..k -> S] : k \in 0..n}

Min(S) == CHOOSE x \in S : \A y \in S : x <= y

-----------------------------------------------------------------------------
(* http::uri::PathAndQuery, as from_api_key and from_metadata use it *)

\* characters a key or an account override is made of: a letter, the query
\* and fragment delimiters, a space, and one non-ASCII character
KeyChars == {"a", "?", "#", " ", "U+3053"}

\* bytes the parser lets stand in a path: 0x21, 0x24..0x3B, 0x3D, 0x40..0x5F,
\* 0x61..0x7A, 0x7C, 0x7E and the three tolerated '"', '{', '}'
PathByte(c) == c \in {"a"}

\* bytes the parser lets stand in a query: 0x21, 0x24..0x3B, 0x3D, 0x3F..0x7E
QueryByte(c) == c \in {"a", "?"}

\* PathAndQuery::from_shared: scan the path up to '?' or '#', then the query
\* up to '#'; any other byte outside the tables is InvalidUriChar; what
\* follows a '#' is cut off unread.  query = 0 stands for NONE, otherwise the
\* (1-based) place of the '?'.
PathAndQuery_parse(s) ==
    LET pstops == {i \in 1..Len(s) : ~PathByte(s[i])}
        p == IF pstops = {} THEN 0 ELSE Min(pstops)
        qstops == {i \in (p + 1)..Len(s) : ~QueryByte(s[i])}
        q == IF qstops = {} THEN 0 ELSE Min(qstops)
    IN  IF p = 0 THEN Ok([data |-> s, query |-> 0])
        ELSE IF s[p] = "#" THEN Ok([data |-> SubSeq(s, 1, p - 1), query |-> 0])
        ELSE IF s[p] # "?" THEN Err("InvalidUriChar")
        ELSE IF q = 0 THEN Ok([data |-> s, query |-> p])
        ELSE IF s[q] = "#" THEN Ok([data |-> SubSeq(s, 1, q - 1), query |-> p])
        ELSE Err("InvalidUriChar")

\* PathAndQuery::path: the data before the '?', and "/" when that is empty
PathAndQuery_path(part) ==
    LET ret == IF part.query = 0 THEN part.data
               ELSE SubSeq(part.data, 1, part.query - 1)
    IN  IF ret = <<>> THEN <<"/">> ELSE ret

\* PathAndQuery::query: None without a '?', else the data after it
PathAndQuery_query(part) ==
    IF part.query = 0 THEN None
    ELSE Some(SubSeq(part.data, part.query + 1, Len(part.data)))

-----------------------------------------------------------------------------
(* credentials::impls *)

\* from_api_key, with the assert_eq! on the parsed query written out
from_api_key(key) ==
    LET part == PathAndQuery_parse(<<"?">> \o key)
        query == PathAndQuery_query(part.val)
    IN  IF part.tag = "Err" THEN Err([err |-> "ApiKeyFormat"])
        ELSE IF (IF IsSome(query) THEN Unwrap(query) ELSE <<>>) # key
             THEN Panic([msg |-> "assertion failed: left == right"])
        ELSE Ok([kind |-> "ApiKey", key |-> key])

-----------------------------------------------------------------------------
(* The environment: one variable, the files two paths name, the probe *)

\* the file GOOGLE_APPLICATION_CREDENTIALS may name, and the well-known
\* $HOME/.config/gcloud/application_default_credentials.json
KeyPath == "key.json"
WellKnownPath == "application_default_credentials.json"
Paths == {KeyPath, WellKnownPath}

\* the JSON members the two credential shapes read; any other member of a
\* document is ignored by both derived deserializers
ServiceAccountFields == <<"client_email", "private_key_id", "private_key", "token_uri">>
UserFields == <<"client_id", "client_secret", "refresh_token">>
Range(q) == {q[i] : i \in 1..Len(q)}
Fields == Range(ServiceAccountFields) \cup Range(UserFields)

\* a member is absent, present with a string, or present with another JSON
\* value ("number"); the string a document d holds under f is StringOf(d, f)
MemberStates == {"absent", "string", "number"}
StringOf(d, f) == d.id \o "." \o f

\* a text is a JSON object (obj) with members, or it is no JSON object at
\* all; the objects of the model hold at most one member that is no string
Shapes == {sh \in [Fields -> MemberStates] :
              Cardinality({x \in Fields : sh[x] = "number"}) <= 1}
DocsOf(id) == {[obj |-> TRUE, id |-> id, f |-> sh] : sh \in Shapes}
                \cup {[obj |-> FALSE, id |-> id, f |-> [x \in Fields |-> "absent"]]}

Shape(present) == [x \in Fields |-> IF x \in present THEN "string" ELSE "absent"]

\* the texts the files of the model hold: a service-account key, a user
\* (refresh-token) document, an object of neither shape, and no JSON
FileDocs(id) ==
    {[obj |-> TRUE, id |-> id, f |-> Shape(Range(ServiceAccountFields))],
     [obj |-> TRUE, id |-> id, f |-> Shape(Range(UserFields))],
     [obj |-> TRUE, id |-> id, f |-> Shape({"client_id"})],
     [obj |-> FALSE, id |-> id, f |-> Shape({})]}

\* a path names nothing (NotFound), or a file that is there but cannot be
\* read as UTF-8 text (Unreadable), or a text
FileStates(p) ==
    {[st |-> "NotFound"], [st |-> "Unreadable"]}
        \cup {[st |-> "Text", doc |-> d] : d \in FileDocs(p)}

\* env::var: Ok(path), Err(NotPresent) or Err(NotUnicode)
VarStates ==
    {[st |-> "NotPresent"], [st |-> "NotUnicode"], [st |-> "Unicode", path |-> KeyPath]}

\* gcemeta::Client::on_gce: Ok(true), Ok(false) or Err
ProbeStates == {"on", "off", "error"}

Envs == {[var |-> v, files |-> fs, gce |-> g] :
            v \in VarStates,
            fs \in {f \in [Paths -> UNION {FileStates(p) : p \in Paths}] :
                        \A p \in Paths : f[p] \in FileStates(p)},
            g \in ProbeStates}

\* Path::exists
exists(path) == env.files[path].st \in {"Unreadable", "Text"}

\* fs::read_to_string
read_to_string(path) ==
    IF env.files[path].st = "Text" THEN Ok(env.files[path].doc)
    ELSE Err([err |-> "io", kind |-> env.files[path].st])

-----------------------------------------------------------------------------
(* credentials::impls, continued.  Every function that touches the         *)
(* environment answers [res, reads]: its result and what it consulted.     *)

\* serde_json::from_slice::<T> for a struct of String fields `fields`, on a
\* JSON object: a member of the wrong type fails where it is met, a missing
\* one at the end; a text that is no object fails at once
Deserialize(json, fields) ==
    LET bad  == {i \in 1..Len(fields) : json.f[fields[i]] = "number"}
        miss == {i \in 1..Len(fields) : json.f[fields[i]] = "absent"}
    IN  IF ~json.obj THEN Err([err |-> "invalid type", field |-> ""])
        ELSE IF bad # {} THEN Err([err |-> "invalid type", field |-> fields[Min(bad)]])
        ELSE IF miss # {} THEN Err([err |-> "missing field", field |-> fields[Min(miss)]])
        ELSE Ok([x \in Range(fields) |-> StringOf(json, x)])

\* from_json with the user shape tried first
from_json_user_first(json, scopes, audience) ==
    LET service_account == Deserialize(json, ServiceAccountFields)
        user == Deserialize(json, UserFields)
    IN  IF user.tag = "Ok"
        THEN Ok([kind |-> "User",
                 scopes |-> scopes,
                 client_id |-> user.val["client_id"],
                 client_secret |-> user.val["client_secret"],
                 refresh_token |-> user.val["refresh_token"]])
        ELSE IF service_account.tag = "Ok"
        THEN Ok([kind |-> "ServiceAccount",
                 scopes |-> scopes,
                 audience |-> audience,
                 client_email |-> service_account.val["client_email"],
                 private_key_id |-> service_account.val["private_key_id"],
                 private_key |-> service_account.val["private_key"],
                 token_uri |-> service_account.val["token_uri"]])
        ELSE Err([err |-> "CredentialsFormat",
                  user |-> user.val,
                  service_account |-> service_account.val])

\* from_json: the service-account shape first, the user shape second
from_json(json, scopes, audience) ==
    LET service_account == Deserialize(json, ServiceAccountFields)
        user == Deserialize(json, UserFields)
    IN  IF service_account.tag = "Ok"
        THEN Ok([kind |-> "ServiceAccount",
                 scopes |-> scopes,
                 audience |-> audience,
                 client_email |-> service_account.val["client_email"],
                 private_key_id |-> service_account.val["private_key_id"],
                 private_key |-> service_account.val["private_key"],
                 token_uri |-> service_account.val["token_uri"]])
        ELSE IF user.tag = "Ok"
        THEN Ok([kind |-> "User",
                 scopes |-> scopes,
                 client_id |-> user.val["client_id"],
                 client_secret |-> user.val["client_secret"],
                 refresh_token |-> user.val["refresh_token"]])
        ELSE Err([err |-> "CredentialsFormat",
                  user |-> user.val,
                  service_account |-> service_account.val])

\* from_json_file
from_json_file(path, scopes, audience) ==
    LET json == read_to_string(path)
    IN  [res |-> IF json.tag = "Err"
                 THEN Err([err |-> "CredentialsFile", source |-> json.val])
                 ELSE from_json(json.val, scopes, audience),
         reads |-> <<path>>]

\* Result<Credentials> -> Result<Option<Credentials>>: .map(Some)
MapSome(r) == IF r.tag = "Ok" THEN Ok(Some(r.val)) ELSE r

\* from_env: any Err of env::var, NotPresent or NotUnicode, is Ok(None)
from_env(scopes, audience) ==
    IF env.var.st = "Unicode"
    THEN LET r == from_json_file(env.var.path, scopes, audience)
         IN  [res |-> MapSome(r.res), reads |-> <<"env">> \o r.reads]
    ELSE [res |-> Ok(None), reads |-> <<"env">>]

\* from_well_known_file
from_well_known_file(scopes, audience) ==
    IF exists(WellKnownPath)
    THEN LET r == from_json_file(WellKnownPath, scopes, audience)
         IN  [res |-> MapSome(r.res), reads |-> <<"exists">> \o r.reads]
    ELSE [res |-> Ok(None), reads |-> <<"exists">>]

\* from_metadata: the account override is checked before the probe
from_metadata(account, scopes) ==
    LET part == PathAndQuery_parse(Unwrap(account))
    IN  IF IsSome(account) /\ part.tag = "Err"
        THEN [res |-> Err([err |-> "Gcemeta", source |-> "Uri"]), reads |-> <<>>]
        ELSE IF IsSome(account) /\ PathAndQuery_path(part.val) # Unwrap(account)
        THEN [res |-> Panic([msg |-> "assertion failed: left == right"]), reads |-> <<>>]
        ELSE [res |-> CASE env.gce = "error" -> Err([err |-> "Gcemeta", source |-> "probe"])
                        [] env.gce = "on" ->
                            Ok(Some([kind |-> "Metadata", scopes |-> scopes,
                                     account |-> account]))
                        [] env.gce = "off" -> Ok(None),
              reads |-> <<"probe">>]

\* find_default with the well-known file tried before the variable
find_default_well_known_first(scopes, audience) ==
    LET e == from_env(scopes, audience)
        w == from_well_known_file(scopes, audience)
        m == from_metadata(None, scopes)
    IN  IF w.res.tag # "Ok" THEN w
        ELSE IF IsSome(w.res.val) THEN [res |-> Ok(Unwrap(w.res.val)), reads |-> w.reads]
        ELSE IF e.res.tag # "Ok" THEN [res |-> e.res, reads |-> w.reads \o e.reads]
        ELSE IF IsSome(e.res.val)
             THEN [res |-> Ok(Unwrap(e.res.val)), reads |-> w.reads \o e.reads]
        ELSE IF m.res.tag # "Ok"
             THEN [res |-> m.res, reads |-> w.reads \o e.reads \o m.reads]
        ELSE IF IsSome(m.res.val)
             THEN [res |-> Ok(Unwrap(m.res.val)), reads |-> w.reads \o e.reads \o m.reads]
        ELSE [res |-> Err([err |-> "CredentialsSource"]),
              reads |-> w.reads \o e.reads \o m.reads]

\* find_default: each `?` returns the step's error; Some(c) ends the chain
find_default(scopes, audience) ==
    LET e == from_env(scopes, audience)
        w == from_well_known_file(scopes, audience)
        m == from_metadata(None, scopes)
    IN  IF e.res.tag # "Ok" THEN e
        ELSE IF IsSome(e.res.val) THEN [res |-> Ok(Unwrap(e.res.val)), reads |-> e.reads]
        ELSE IF w.res.tag # "Ok" THEN [res |-> w.res, reads |-> e.reads \o w.reads]
        ELSE IF IsSome(w.res.val)
             THEN [res |-> Ok(Unwrap(w.res.val)), reads |-> e.reads \o w.reads]
        ELSE IF m.res.tag # "Ok"
             THEN [res |-> m.res, reads |-> e.reads \o w.reads \o m.reads]
        ELSE IF IsSome(m.res.val)
             THEN [res |-> Ok(Unwrap(m.res.val)), reads |-> e.reads \o w.reads \o m.reads]
        ELSE [res |-> Err([err |-> "CredentialsSource"]),
              reads |-> e.reads \o w.reads \o m.reads]

-----------------------------------------------------------------------------
(* credentials::Builder *)

DefaultScopes == <<"https://www.googleapis.com/auth/cloud-platform">>

\* the scope lists and the audience a caller configures
ScopeLists == {<<>>, <<"scope1", "scope2">>}
Audiences == {"https://some-service.url"}

\* Builder::default
Builder_default ==
    [scopes |-> DefaultScopes, audience |-> None, source |-> [kind |-> "Default"]]

\* Builder::build; for Source::Metadata the `?` returns the error and
\* expect() panics on None
build(b) ==
    CASE b.source.kind = "None" -> [res |-> Ok([kind |-> "None"]), reads |-> <<>>]
      [] b.source.kind = "Default" -> find_default(b.scopes, b.audience)
      [] b.source.kind = "ApiKey" -> [res |-> from_api_key(b.source.key), reads |-> <<>>]
      [] b.source.kind = "Json" ->
            [res |-> from_json(b.source.data, b.scopes, b.audience), reads |-> <<>>]
      [] b.source.kind = "JsonFile" -> from_json_file(b.source.path, b.scopes, b.audience)
      [] b.source.kind = "Metadata" ->
            LET m == from_metadata(b.source.account, b.scopes)
            IN  IF m.res.tag # "Ok" THEN m
                ELSE IF IsSome(m.res.val)
                     THEN [res |-> Ok(Unwrap(m.res.val)), reads |-> m.reads]
                ELSE [res |-> Panic([msg |-> "this process must be running on GCE"]),
                      reads |-> m.reads]

\* Credentials::builder(): a new Builder
Credentials_builder ==
    /\ IsSome(outcome)
    /\ builder' = Builder_default
    /\ outcome' = None
    /\ reads' = <<>>
    /\ UNCHANGED <<env, tokenVars, pathVars, saVars, fetchVars>>

\* Each setter consumes the builder and returns it with one field replaced;
\* build() consumes it for good, so no setter follows a build.

\* Builder::no_credentials
Builder_no_credentials ==
    /\ outcome = None
    /\ builder' = [builder EXCEPT !.source = [kind |-> "None"]]
    /\ UNCHANGED <<env, outcome, reads, tokenVars, pathVars, saVars, fetchVars>>

\* Builder::api_key
Builder_api_key(key) ==
    /\ outcome = None
    /\ builder' = [builder EXCEPT !.source = [kind |-> "ApiKey", key |-> key]]
    /\ UNCHANGED <<env, outcome, reads, tokenVars, pathVars, saVars, fetchVars>>

\* Builder::json
Builder_json(data) ==
    /\ outcome = None
    /\ builder' = [builder EXCEPT !.source = [kind |-> "Json", data |-> data]]
    /\ UNCHANGED <<env, outcome, reads, tokenVars, pathVars, saVars, fetchVars>>

\* Builder::json_file
Builder_json_file(path) ==
    /\ outcome = None
    /\ builder' = [builder EXCEPT !.source = [kind |-> "JsonFile", path |-> path]]
    /\ UNCHANGED <<env, outcome, reads, tokenVars, pathVars, saVars, fetchVars>>

\* Builder::metadata
Builder_metadata(account) ==
    /\ outcome = None
    /\ builder' = [builder EXCEPT !.source = [kind |-> "Metadata", account |-> account]]
    /\ UNCHANGED <<env, outcome, reads, tokenVars, pathVars, saVars, fetchVars>>

\* Builder::scopes
Builder_scopes(scopes) ==
    /\ outcome = None
    /\ builder' = [builder EXCEPT !.scopes = scopes]
    /\ UNCHANGED <<env, outcome, reads, tokenVars, pathVars, saVars, fetchVars>>

\* Builder::audience
Builder_audience(audience) ==
    /\ outcome = None
    /\ builder' = [builder EXCEPT !.audience = Some(audience)]
    /\ UNCHANGED <<env, outcome, reads, tokenVars, pathVars, saVars, fetchVars>>

\* Builder::build, one step: the result and what it consulted
Builder_build ==
    /\ outcome = None
    /\ outcome' = Some(build(builder).res)
    /\ reads' = build(builder).reads
    /\ UNCHANGED <<builder, env, tokenVars, pathVars, saVars, fetchVars>>

-----------------------------------------------------------------------------
(* Specifications of the resolution *)

IdleToken == response = None /\ now = 0 /\ token = None /\ checked = None
IdlePath == meta = None /\ pq = None
IdleSa == sa = None /\ fetcher = None /\ wall = 0 /\ fetched = <<>>
IdleFetch == mfetcher = None /\ calls = <<>> /\ sent = <<>>
IdleResolve ==
    /\ builder = Builder_default
    /\ outcome = None
    /\ reads = <<>>
    /\ env = [var |-> [st |-> "NotPresent"],
              files |-> [p \in Paths |-> [st |-> "NotFound"]],
              gce |-> "off"]

\* every key and account override of at most MaxKeyLen characters
Keys == SeqsUpTo(KeyChars, MaxKeyLen)

\* Spec: the builder in every environment of Envs; keys and account
\* overrides are well-formed
Init ==
    /\ builder = Builder_default
    /\ env \in Envs
    /\ outcome = None
    /\ reads = <<>>
    /\ IdleToken /\ IdlePath /\ IdleSa /\ IdleFetch

Next ==
    \/ Credentials_builder
    \/ Builder_no_credentials
    \/ Builder_api_key(<<"a">>)
    \/ \E data \in FileDocs("inline") : Builder_json(data)
    \/ \E path \in Paths : Builder_json_file(path)
    \/ \E account \in {None, Some(<<"a">>)} : Builder_metadata(account)
    \/ \E scopes \in ScopeLists : Builder_scopes(scopes)
    \/ \E audience \in Audiences : Builder_audience(audience)
    \/ Builder_build

Spec == Init /\ [][Next]_vars

\* KeySpec: every key and every account override, where no credentials
\* file exists and the probe answers any of its three ways
KeyInit ==
    /\ builder = Builder_default
    /\ env \in {e \in Envs : /\ e.var.st = "NotPresent"
                             /\ \A p \in Paths : e.files[p].st = "NotFound"}
    /\ outcome = None
    /\ reads = <<>>
    /\ IdleToken /\ IdlePath /\ IdleSa /\ IdleFetch

KeyNext ==
    \/ Credentials_builder
    \/ \E key \in Keys : Builder_api_key(key)
    \/ \E account \in {None} \cup {Some(k) : k \in Keys} : Builder_metadata(account)
    \/ \E scopes \in ScopeLists : Builder_scopes(scopes)
    \/ Builder_build

KeySpec == KeyInit /\ [][KeyNext]_vars

-----------------------------------------------------------------------------
(* Claims about the resolution *)

\* build() has run on a builder whose source is of this kind
Built(kind) == IsSome(outcome) /\ builder.source.kind = kind
Result == Unwrap(outcome)

\* a text has every member of a shape, each a string
HasShape(d, fields) == d.obj /\ \A x \in Range(fields) : d.f[x] = "string"

\* the file a path names holds a text of one of the two shapes
WouldParse(path) ==
    /\ env.files[path].st = "Text"
    /\ \/ HasShape(env.files[path].doc, ServiceAccountFields)
       \/ HasShape(env.files[path].doc, UserFields)

\* credentials c carry the strings of the document `id` and the configured
\* scopes (and audience)
BuiltFrom(c, id) ==
    \/ /\ c.kind = "ServiceAccount"
       /\ \A x \in Range(ServiceAccountFields) : c[x] = id \o "." \o x
       /\ c.scopes = builder.scopes
       /\ c.audience = builder.audience
    \/ /\ c.kind = "User"
       /\ \A x \in Range(UserFields) : c[x] = id \o "." \o x
       /\ c.scopes = builder.scopes

\* the steps of the chain among what was consulted
Steps(r) == SelectSeq(r, LAMBDA x : x \in {"env", "exists", "probe"})
IsPrefix(a, b) == Len(a) <= Len(b) /\ a = SubSeq(b, 1, Len(a))

\* C1: default resolution consults the variable's file, the well-known file
\* and the metadata probe in that order and stops at the first that applies:
\* where both files would parse, the credentials carry the content of the
\* variable's file; where the variable is unset, the well-known file absent
\* and the probe answers "not running there", the result is the error
\* CredentialsSource; Credentials::None is never returned.
C1_DefaultOrder ==
    Built("Default") =>
        /\ Steps(reads) # <<>>
        /\ IsPrefix(Steps(reads), <<"env", "exists", "probe">>)
        /\ (env.var.st = "Unicode" /\ WouldParse(env.var.path) /\ WouldParse(WellKnownPath))
              => Result.tag = "Ok" /\ BuiltFrom(Result.val, env.var.path)
        /\ (env.var.st = "NotPresent" /\ env.files[WellKnownPath].st = "NotFound"
                /\ env.gce = "off")
              => Result = Err([err |-> "CredentialsSource"])
        /\ Result.tag = "Ok" => Result.val.kind # "None"

\* C1, witness: default resolution has run where both files would parse
C1_Witness ==
    /\ Built("Default")
    /\ env.var.st = "Unicode" /\ WouldParse(env.var.path) /\ WouldParse(WellKnownPath)
    /\ Result.tag = "Ok" /\ Result.val.kind = "User"
    /\ builder.scopes = <<"scope1", "scope2">>

\* C1, second witness: no source applies
C1_WitnessNoSource ==
    /\ Built("Default")
    /\ env.var.st = "NotPresent" /\ env.files[WellKnownPath].st = "NotFound"
    /\ env.gce = "off"
    /\ Result.tag = "Err"

\* C2: in default resolution a variable that is set, naming a file that is
\* unreadable or of neither shape, fails with the credentials-file / format
\* error and neither the well-known file nor the probe is consulted; a
\* well-known file that exists but cannot be loaded or parsed fails without
\* the probe; only an unset variable lets the chain reach the well-known
\* file, and only an absent well-known file lets it reach the probe.
C2_NoFallthrough ==
    Built("Default") =>
        /\ (env.var.st = "Unicode" /\ ~WouldParse(env.var.path))
              => /\ Result.tag = "Err"
                 /\ Result.val.err \in {"CredentialsFile", "CredentialsFormat"}
                 /\ Steps(reads) = <<"env">>
        /\ (env.var.st = "NotPresent" /\ env.files[WellKnownPath].st # "NotFound"
                /\ ~WouldParse(WellKnownPath))
              => /\ Result.tag = "Err"
                 /\ Result.val.err \in {"CredentialsFile", "CredentialsFormat"}
                 /\ Steps(reads) = <<"env", "exists">>
        /\ Len(Steps(reads)) >= 2 => env.var.st = "NotPresent"
        /\ Len(Steps(reads)) >= 3 => env.files[WellKnownPath].st = "NotFound"

\* characters that are safe in a URL query value, and characters that would
\* alter the encoded query: one that ends the query component, a space, a
\* non-ASCII character
QuerySafe == {"a", "?"}
QueryAltering == {"#", " ", "U+3053"}

\* C7: for every key, building from an API key yields Ok(ApiKey(key)) with
\* the key unchanged or the configuration error ApiKeyFormat, never an
\* abort; a key of safe characters only is accepted, and every key with a
\* character that would alter the encoded query ('#', a non-ASCII
\* character) is rejected with ApiKeyFormat.
C7_ApiKeyAcceptance ==
    Built("ApiKey") =>
        LET key == builder.source.key
        IN  /\ \/ Result = Ok([kind |-> "ApiKey", key |-> key])
               \/ Result = Err([err |-> "ApiKeyFormat"])
            /\ Range(key) \subseteq QuerySafe => Result.tag = "Ok"
            /\ Range(key) \cap QueryAltering # {} => Result.tag = "Err"

\* characters that make an account override no path segment
AccountMalformed(account) ==
    IsSome(account) /\ \E i \in 1..Len(Unwrap(account)) : ~PathByte(Unwrap(account)[i])

\* C8: with the forced-metadata source build() consults neither the
\* variable nor the well-known file; a probe answering "not running there"
\* makes it abort, where default resolution returns the error
\* CredentialsSource for the same answer; a malformed account override or a
\* failing probe is returned as an error, not as an abort.
C8_ForcedMetadata ==
    /\ Built("Metadata") =>
        /\ Range(reads) \subseteq {"probe"}
        /\ ("probe" \in Range(reads) /\ env.gce = "off") => Result.tag = "Panic"
        /\ ("probe" \in Range(reads) /\ env.gce = "error") => Result.tag = "Err"
        /\ AccountMalformed(builder.source.account) => Result.tag = "Err"
    /\ (/\ Built("Default") /\ env.gce = "off" /\ env.var.st = "NotPresent"
        /\ env.files[WellKnownPath].st = "NotFound")
          => Result = Err([err |-> "CredentialsSource"])

-----------------------------------------------------------------------------
(* JsonSpec: Builder::json over every document, no environment involved *)

JsonInit == IdleResolve /\ IdleToken /\ IdlePath /\ IdleSa /\ IdleFetch

JsonNext ==
    \/ Credentials_builder
    \/ \E data \in DocsOf("inline") : Builder_json(data)
    \/ \E scopes \in ScopeLists : Builder_scopes(scopes)
    \/ \E audience \in Audiences : Builder_audience(audience)
    \/ Builder_build

JsonSpec == JsonInit /\ [][JsonNext]_vars

\* what serde reports for a struct of the given fields
ParseErrors(fields) ==
    {[err |-> e, field |-> x] : e \in {"invalid type", "missing field"},
                                x \in Range(fields) \cup {""}}

\* C6: from_json tries the service-account shape first and the user shape
\* second: a document with the service-account members yields
\* Credentials::ServiceAccount with exactly the configured scopes and
\* audience (also when it has the user members too), one with the user
\* members only yields Credentials::User with the configured scopes, one of
\* neither shape yields one CredentialsFormat error carrying both parse
\* errors; there is no other outcome.
C6_JsonClassification ==
    Built("Json") =>
        LET d == builder.source.data
        IN  /\ HasShape(d, ServiceAccountFields)
                 => /\ Result.tag = "Ok" /\ Result.val.kind = "ServiceAccount"
                    /\ BuiltFrom(Result.val, d.id)
            /\ (~HasShape(d, ServiceAccountFields) /\ HasShape(d, UserFields))
                 => /\ Result.tag = "Ok" /\ Result.val.kind = "User"
                    /\ BuiltFrom(Result.val, d.id)
            /\ (~HasShape(d, ServiceAccountFields) /\ ~HasShape(d, UserFields))
                 => /\ Result.tag = "Err" /\ Result.val.err = "CredentialsFormat"
                    /\ Result.val.service_account \in ParseErrors(ServiceAccountFields)
                    /\ Result.val.user \in ParseErrors(UserFields)
            /\ Result.tag \in {"Ok", "Err"}

\* C6, witness: a document of both shapes was classified, with scopes and an
\* audience configured
C6_Witness ==
    /\ Built("Json")
    /\ HasShape(builder.source.data, ServiceAccountFields)
    /\ HasShape(builder.source.data, UserFields)
    /\ builder.audience # None /\ builder.scopes = <<"scope1", "scope2">>
    /\ Result.tag = "Ok" /\ Result.val.kind = "ServiceAccount"

-----------------------------------------------------------------------------
(* auth::oauth2::token *)

U64Max == 2 ^ IntBits - 1
InstantMax == 2 ^ (IntBits - 1) - 1

\* characters of a reply's fields: one a header value may hold, one it may not
FieldChars == {"a", "\n"}
Fields_ == SeqsUpTo(FieldChars, MaxFieldLen)

\* expires_in of a reply: none, small, around the freshness margin, an hour,
\* and the largest values of the unsigned range
ExpiresIn == {0, 1, 9, 10, 11, 25, 3600, InstantMax - 1, InstantMax, U64Max - 1, U64Max}

Responses ==
    {[type |-> "AccessToken", token_type |-> t, access_token |-> a, expires_in |-> e] :
        t \in Fields_, a \in Fields_, e \in ExpiresIn}
    \cup {[type |-> "IdToken", id_token |-> i] : i \in Fields_}

\* HeaderValue::from_str: every byte is >= 32 and not 127, or a tab
HeaderValue_from_str(value) ==
    IF \A i \in 1..Len(value) : value[i] # "\n" THEN Ok(value) ELSE Err("InvalidHeaderValue")

\* Instant + Duration: checked_add(..).expect("overflow when adding duration
\* to instant")
Instant_add(instant, secs) ==
    IF instant + secs > InstantMax THEN Panic([msg |-> "overflow when adding duration to instant"])
    ELSE Ok(instant + secs)

\* Token::new
Token_new(value, expiry) == [value |-> value, expiry |-> expiry]

EXPIRY_DELTA == 10

\* Token::expired with <= for <
expired_inclusive(self, at) ==
    IF self.expiry >= at THEN self.expiry - at <= EXPIRY_DELTA ELSE TRUE

\* Token::expired: checked_duration_since is None when `at` is later
expired(self, at) ==
    LET dur == IF self.expiry >= at THEN Some(self.expiry - at) ELSE None
    IN  IF IsSome(dur) THEN Unwrap(dur) < EXPIRY_DELTA ELSE TRUE

\* the closure of both arms: expiry = Instant::now() + Duration, then Token::new
WithExpiry(hv, secs) ==
    LET expiry == Instant_add(now, secs)
    IN  IF expiry.tag = "Panic" THEN expiry ELSE Ok(Token_new(hv, expiry.val))

TokenFormat(r) == Err([err |-> "TokenFormat", response |-> r])

\* impl TryFrom<Response> for Token
try_from(r) ==
    IF r.type = "AccessToken"
    THEN IF r.token_type # <<>> /\ r.access_token # <<>> /\ r.expires_in > 0
         THEN LET hv == HeaderValue_from_str(r.token_type \o <<" ">> \o r.access_token)
              IN  IF hv.tag = "Ok" THEN WithExpiry(hv.val, r.expires_in)
                  ELSE TokenFormat(r)
         ELSE TokenFormat(r)
    ELSE IF r.id_token # <<>>
         THEN LET hv == HeaderValue_from_str(<<"Bearer ">> \o r.id_token)
              IN  IF hv.tag = "Ok" THEN WithExpiry(hv.val, 60 * 60)
                  ELSE TokenFormat(r)
         ELSE TokenFormat(r)

\* a reply is converted
Token_try_from ==
    /\ IsSome(response) /\ token = None
    /\ token' = Some(try_from(Unwrap(response)))
    /\ UNCHANGED <<response, now, checked, resolveVars, pathVars, saVars, fetchVars>>

\* the holder of a token asks whether it is expired at `at`
Token_expired(at) ==
    /\ IsSome(token) /\ Unwrap(token).tag = "Ok"
    /\ checked' = Some([at |-> at, expired |-> expired(Unwrap(token).val, at)])
    /\ UNCHANGED <<response, now, token, resolveVars, pathVars, saVars, fetchVars>>

TokenInit ==
    /\ response \in {Some(r) : r \in Responses}
    /\ now \in 0..MaxNow
    /\ token = None
    /\ checked = None
    /\ IdleResolve /\ IdlePath /\ IdleSa /\ IdleFetch

TokenNext ==
    \/ Token_try_from
    \/ \E at \in 0..MaxAt : Token_expired(at)

TokenSpec == TokenInit /\ [][TokenNext]_vars

\* C3: expired(at) is true exactly when expiry - at < 10 seconds, for every
\* expiry and at: true when at is later than expiry, true when
\* 0 <= expiry - at < 10, false when expiry - at >= 10; it never aborts.
C3_Expired ==
    IsSome(checked) =>
        LET expiry == Unwrap(token).val.expiry
            c == Unwrap(checked)
        IN  /\ c.expired \in BOOLEAN
            /\ c.expired <=> (expiry - c.at < 10)
            /\ c.at > expiry => c.expired
            /\ expiry - c.at = 10 => ~c.expired

\* C3, witness: a token checked exactly ten seconds before its expiry
C3_Witness ==
    /\ IsSome(checked)
    /\ Unwrap(token).val.expiry - Unwrap(checked).at = 10
    /\ ~Unwrap(checked).expired

\* C3, second witness: a token checked after its expiry
C3_WitnessPast ==
    /\ IsSome(checked)
    /\ Unwrap(checked).at > Unwrap(token).val.expiry
    /\ Unwrap(checked).expired

\* a header value may hold every character of the string
Legal(value) == "\n" \notin Range(value)

\* C4: the conversion is total over every Response: it returns a Token or
\* the failure TokenFormat carrying the unchanged Response and never aborts;
\* it succeeds exactly for AccessToken{t,a,e} with t, a non-empty and e > 0
\* or IdToken{i} with i non-empty, where the composed value is a legal
\* header value; the value is then "<t> <a>" with expiry now + e, or
\* "Bearer <i>" with expiry now + 3600.
C4_Conversion ==
    IsSome(token) =>
        LET r == Unwrap(response)
            t == Unwrap(token)
            value == IF r.type = "AccessToken"
                     THEN r.token_type \o <<" ">> \o r.access_token
                     ELSE <<"Bearer ">> \o r.id_token
            wellFormed == IF r.type = "AccessToken"
                          THEN r.token_type # <<>> /\ r.access_token # <<>> /\ r.expires_in > 0
                          ELSE r.id_token # <<>>
        IN  /\ t.tag \in {"Ok", "Err"}
            /\ t.tag = "Err" => t.val = [err |-> "TokenFormat", response |-> r]
            /\ t.tag = "Ok" <=> (wellFormed /\ Legal(value))
            /\ t.tag = "Ok" =>
                  /\ t.val.value = value
                  /\ t.val.expiry = now + (IF r.type = "AccessToken" THEN r.expires_in ELSE 3600)

-----------------------------------------------------------------------------
(* auth::oauth2::metadata: path_and_query *)

\* form_urlencoded::byte_serialize, token by token: unreserved characters
\* stand, a space becomes '+', any other byte becomes %XX
EncodeToken(c) ==
    CASE c = "," -> "%2C"
      [] c = "/" -> "%2F"
      [] c = ":" -> "%3A"
      [] c = " " -> "+"
      [] OTHER -> c

RECURSIVE byte_serialize(_)
byte_serialize(s) ==
    IF s = <<>> THEN "" ELSE EncodeToken(Head(s)) \o byte_serialize(Tail(s))

\* serde_urlencoded::to_string of a struct with the one field `key`
to_string(key, value) == key \o "=" \o byte_serialize(value)

\* [String]::join: the strings with sep between neighbours
RECURSIVE join(_, _)
join(strings, sep) ==
    IF strings = <<>> THEN <<>>
    ELSE IF Len(strings) = 1 THEN strings[1]
    ELSE strings[1] \o sep \o join(Tail(strings), sep)

\* path_and_query with every scope encoded by itself and a plain comma between
path_and_query_encode_each(account, scopes, audience) ==
    LET base == "/computeMetadata/v1/instance/service-accounts/"
                  \o (IF IsSome(account) THEN Flat(Unwrap(account)) ELSE "default")
                  \o (IF IsSome(audience) THEN "/identity" ELSE "/token")
    IN  IF IsSome(audience) THEN base \o "?" \o to_string("audience", Unwrap(audience))
        ELSE IF scopes # <<>>
             THEN base \o "?scopes="
                    \o Flat(join([i \in 1..Len(scopes) |-> <<byte_serialize(scopes[i])>>], <<",">>))
        ELSE base

\* path_and_query
path_and_query(account, scopes, audience) ==
    LET base == "/computeMetadata/v1/instance/service-accounts/"
                  \o (IF IsSome(account) THEN Flat(Unwrap(account)) ELSE "default")
                  \o (IF IsSome(audience) THEN "/identity" ELSE "/token")
    IN  IF IsSome(audience) THEN base \o "?" \o to_string("audience", Unwrap(audience))
        ELSE IF scopes # <<>> THEN base \o "?" \o to_string("scopes", join(scopes, <<",">>))
        ELSE base

\* the strings of the model: the scopes and the audience of the unit test,
\* a scope that holds a comma, one that holds a space, and the empty string
CloudPlatform ==
    <<"https", ":", "/", "/", "www.googleapis.com", "/", "auth", "/", "cloud-platform">>
ScopeStrings == {CloudPlatform, <<"scope1">>, <<"scope2">>, <<"a", ",", "b">>, <<"a", " ", "b">>, <<>>}
AudienceStrings == {<<"https", ":", "/", "/", "some-service.url">>, <<"a", ",", "b">>, <<>>}
AccountStrings == {<<"sa@project.iam.gserviceaccount.com">>, <<>>}

Option(S) == {None} \cup {Some(x) : x \in S}

\* path_and_query is called on meta, as Metadata::new does
Call_path_and_query ==
    /\ IsSome(meta) /\ pq = None
    /\ pq' = Some(path_and_query(Unwrap(meta).account, Unwrap(meta).scopes,
                                 Unwrap(meta).audience))
    /\ UNCHANGED <<meta, resolveVars, tokenVars, saVars, fetchVars>>

PathInit ==
    /\ meta \in {Some([account |-> a, scopes |-> sc, audience |-> au]) :
                    a \in Option(AccountStrings),
                    sc \in SeqsUpTo(ScopeStrings, MaxScopes),
                    au \in Option(AudienceStrings)}
    /\ pq = None
    /\ IdleResolve /\ IdleToken /\ IdleSa /\ IdleFetch

PathNext == Call_path_and_query

PathSpec == PathInit /\ [][PathNext]_vars

\* the encoded strings with "%2C" between neighbours
RECURSIVE EncodedScopes(_)
EncodedScopes(scopes) ==
    IF Len(scopes) = 1 THEN byte_serialize(scopes[1])
    ELSE byte_serialize(scopes[1]) \o "%2C" \o EncodedScopes(Tail(scopes))

\* C5: for every (account, scopes, audience) the result is
\* "/computeMetadata/v1/instance/service-accounts/" + (account, or "default")
\* + "/identity?audience=<encoded audience>" when an audience is present
\* (whatever the scopes), and otherwise + "/token", followed by
\* "?scopes=<encoded scopes>" when there is a scope and by nothing when there
\* is none; the scopes are joined before they are encoded, so the comma
\* between two scopes appears as %2C.
C5_PathAndQuery ==
    IsSome(pq) =>
        LET m == Unwrap(meta)
            account == IF IsSome(m.account) THEN Flat(Unwrap(m.account)) ELSE "default"
            prefix == "/computeMetadata/v1/instance/service-accounts/" \o account
        IN  Unwrap(pq) =
              (IF IsSome(m.audience)
               THEN prefix \o "/identity?audience=" \o byte_serialize(Unwrap(m.audience))
               ELSE IF Len(m.scopes) >= 1
               THEN prefix \o "/token?scopes=" \o EncodedScopes(m.scopes)
               ELSE prefix \o "/token")

\* C5, witness: the two-scope case of test_path_and_query
C5_Witness ==
    /\ meta = Some([account |-> None, scopes |-> <<(<<"scope1">>), (<<"scope2">>)>>,
                    audience |-> None])
    /\ pq = Some("/computeMetadata/v1/instance/service-accounts/default/token?scopes=scope1%2Cscope2")

\* C5, the other cases of test_path_and_query
C5_WitnessCloudPlatform ==
    /\ meta = Some([account |-> None, scopes |-> <<CloudPlatform>>, audience |-> None])
    /\ pq = Some("/computeMetadata/v1/instance/service-accounts/default/token?scopes=https%3A%2F%2Fwww.googleapis.com%2Fauth%2Fcloud-platform")

C5_WitnessAudience ==
    /\ meta = Some([account |-> None, scopes |-> <<>>,
                    audience |-> Some(<<"https", ":", "/", "/", "some-service.url">>)])
    /\ pq = Some("/computeMetadata/v1/instance/service-accounts/default/identity?audience=https%3A%2F%2Fsome-service.url")

C5_WitnessNoScopes ==
    /\ meta = Some([account |-> None, scopes |-> <<>>, audience |-> None])
    /\ pq = Some("/computeMetadata/v1/instance/service-accounts/default/token")

-----------------------------------------------------------------------------
(* auth::oauth2::service_account *)

\* private_key strings, which from_json takes as they are: an RSA key in
\* PEM, a PEM the signer refuses (as an RSA key too short for RS256), and a
\* string that is no PEM
PrivateKeys == {"rsa-pem", "rsa-pem-unsignable", "not-pem"}

\* token_uri strings: one Uri::from_maybe_shared accepts, one it does not
TokenUris == {"https://oauth2.googleapis.com/token", "not a uri"}

\* the credentials::ServiceAccount values from_json can return
ServiceAccounts ==
    {[kind |-> "ServiceAccount", scopes |-> sc, audience |-> au,
      client_email |-> "sa@project.iam.gserviceaccount.com",
      private_key_id |-> "key-id", private_key |-> k, token_uri |-> u] :
        sc \in {<<>>, <<"scope1">>, <<"scope1", "scope2">>},
        au \in Option(Audiences),
        k \in PrivateKeys,
        u \in TokenUris}

\* [&str]::join(" ") over whole strings
RECURSIVE join_str(_, _)
join_str(strings, sep) ==
    IF strings = <<>> THEN ""
    ELSE IF Len(strings) = 1 THEN strings[1]
    ELSE strings[1] \o sep \o join_str(Tail(strings), sep)

\* header
header(typ, key_id) == [typ |-> Some(typ), alg |-> "RS256", kid |-> Some(key_id)]

\* ServiceAccount::new: the fields in order; each unwrap() panics on Err
ServiceAccount_new(c) ==
    IF c.private_key = "not-pem"
    THEN Panic([msg |-> "unwrap on Err: InvalidRsaKey"])
    ELSE IF c.token_uri = "not a uri"
    THEN Panic([msg |-> "unwrap on Err: InvalidUri"])
    ELSE Ok([header |-> header("JWT", c.private_key_id),
             private_key |-> c.private_key,
             token_uri |-> c.token_uri,
             token_uri_str |-> c.token_uri,
             scopes |-> join_str(c.scopes, " "),
             client_email |-> c.client_email,
             audience |-> c.audience])

\* issued_at
issued_at == wall - 10

EXPIRE == 60 * 60

\* the claims of fetch with scope set whether or not there is an audience
Claims_scope_always(self, iat) ==
    [iss |-> self.client_email,
     scope |-> Some(self.scopes),
     aud |-> self.token_uri_str,
     iat |-> iat,
     exp |-> iat + EXPIRE,
     target_audience |-> self.audience,
     sub |-> IF IsSome(self.audience) THEN Some(self.client_email) ELSE None]

\* the Claims fetch builds
Claims(self, iat) ==
    [iss |-> self.client_email,
     scope |-> IF IsSome(self.audience) THEN None ELSE Some(self.scopes),
     aud |-> self.token_uri_str,
     iat |-> iat,
     exp |-> iat + EXPIRE,
     target_audience |-> self.audience,
     sub |-> IF IsSome(self.audience) THEN Some(self.client_email) ELSE None]

\* what the exchange may come to: a reply, or a transport / parse error
Exchanges ==
    {Ok([type |-> "AccessToken", token_type |-> <<"Bearer">>,
         access_token |-> <<"a">>, expires_in |-> 3600]),
     Ok([type |-> "IdToken", id_token |-> <<"a">>]),
     Err([err |-> "Http"])}

\* fetch: encode(..).unwrap() panics when signing fails; otherwise one
\* request goes out and the future resolves to what the exchange came to
fetch(self, exchange) ==
    LET claims == Claims(self, issued_at)
    IN  IF self.private_key = "rsa-pem-unsignable"
        THEN [claims |-> Some(claims), request |-> None,
              result |-> Panic([msg |-> "unwrap on Err: InvalidRsaKey"])]
        ELSE [claims |-> Some(claims),
              request |-> Some([uri |-> self.token_uri,
                                grant_type |-> "urn:ietf:params:oauth:grant-type:jwt-bearer",
                                assertion |-> [header |-> self.header, claims |-> claims,
                                               key |-> self.private_key]]),
              result |-> exchange]

\* ServiceAccount::new(sa)
ServiceAccount_new_call ==
    /\ IsSome(sa) /\ fetcher = None
    /\ fetcher' = Some(ServiceAccount_new(Unwrap(sa)))
    /\ UNCHANGED <<sa, wall, fetched, resolveVars, tokenVars, pathVars, fetchVars>>

\* fetch() on the fetcher, at a clock reading t, with the exchange ending
\* one way or the other
ServiceAccount_fetch(t, exchange) ==
    /\ IsSome(fetcher) /\ Unwrap(fetcher).tag = "Ok"
    /\ Len(fetched) < MaxFetches
    /\ \A i \in 1..Len(fetched) : fetched[i].result.tag # "Panic"
    /\ t >= wall
    /\ wall' = t
    /\ fetched' = Append(fetched, fetch(Unwrap(fetcher).val, exchange))
    /\ UNCHANGED <<sa, fetcher, resolveVars, tokenVars, pathVars, fetchVars>>

SaInit ==
    /\ sa \in {Some(c) : c \in ServiceAccounts}
    /\ fetcher = None
    /\ wall = MinWall
    /\ fetched = <<>>
    /\ IdleResolve /\ IdleToken /\ IdlePath /\ IdleFetch

SaNext ==
    \/ ServiceAccount_new_call
    \/ \E t \in MinWall..MaxWall, exchange \in Exchanges : ServiceAccount_fetch(t, exchange)

SaSpec == SaInit /\ [][SaNext]_vars

\* the scopes with one space between neighbours
SpaceJoined(scopes) ==
    IF scopes = <<>> THEN ""
    ELSE scopes[1] \o Flat([i \in 1..(Len(scopes) - 1) |-> " " \o scopes[i + 1]])

\* C9: in the claims of every fetch, iss is the client email and aud the
\* configured token endpoint; with an audience configured scope is omitted,
\* sub is the client email and target_audience the audience; with none,
\* scope is the scopes joined by single spaces and sub and target_audience
\* are omitted; exp = iat + 3600 in both cases.
C9_ClaimSet ==
    \A i \in 1..Len(fetched) :
        LET c == Unwrap(fetched[i].claims)
            cred == Unwrap(sa)
        IN  /\ c.iss = cred.client_email
            /\ c.aud = cred.token_uri
            /\ c.exp = c.iat + 3600
            /\ IsSome(cred.audience) =>
                  /\ c.scope = None
                  /\ c.sub = Some(cred.client_email)
                  /\ c.target_audience = cred.audience
            /\ ~IsSome(cred.audience) =>
                  /\ c.scope = Some(SpaceJoined(cred.scopes))
                  /\ c.sub = None
                  /\ c.target_audience = None
            /\ IsSome(c.scope) <=> ~(IsSome(c.sub) /\ IsSome(c.target_audience))
            /\ IsSome(c.sub) <=> IsSome(c.target_audience)

\* C9, witness: a fetch with an audience and scopes configured has signed
\* its claims and sent the request
C9_Witness ==
    /\ Len(fetched) = 2
    /\ IsSome(Unwrap(sa).audience) /\ Len(Unwrap(sa).scopes) = 2
    /\ IsSome(fetched[2].request)
    /\ Unwrap(fetched[2].claims).scope = None

\* C9, second witness: a fetch without an audience, scopes joined
C9_WitnessScopes ==
    /\ Len(fetched) >= 1
    /\ Unwrap(sa).audience = None
    /\ Unwrap(fetched[1].claims).scope = Some("scope1 scope2")

\* C10: for credentials whose private_key is no valid RSA PEM key the
\* construction of the fetcher fails with a signing error returned to the
\* caller, and a failing exchange is returned as an error from fetch;
\* neither the construction nor fetch aborts.
C10_ErrorsNotAborts ==
    /\ (IsSome(fetcher) /\ Unwrap(sa).private_key = "not-pem")
          => Unwrap(fetcher).tag = "Err"
    /\ \A i \in 1..Len(fetched) : fetched[i].result.tag \in {"Ok", "Err"}

-----------------------------------------------------------------------------
(* auth::oauth2::metadata: Metadata::new and fetch *)

\* the most fetch() calls made on one fetcher
MaxCalls == 2

\* &'static str -> String (s.as_ref().into()): the characters of the
\* strings a caller configures
into_string(s) ==
    CASE s = "https://www.googleapis.com/auth/cloud-platform" -> CloudPlatform
      [] s = "https://some-service.url" -> <<"https", ":", "/", "/", "some-service.url">>
      [] OTHER -> <<s>>

\* Metadata::new.  credentials::Metadata is declared, and filled in by
\* from_metadata, with the fields client, scopes and account: a value of it
\* holds no audience for meta.audience to find.  PathAndQuery::from_str is
\* given the account as from_metadata has checked it, between a path and a
\* percent-encoded query, and keeps the string as it is; unwrap() panics on
\* a byte that may not stand in a path.
Metadata_new(m) ==
    LET audience == IF "audience" \in DOMAIN m THEN m.audience ELSE None
        scopes == [i \in 1..Len(m.scopes) |-> into_string(m.scopes[i])]
    IN  IF IsSome(m.account) /\ PathAndQuery_parse(Unwrap(m.account)).tag = "Err"
        THEN Panic([msg |-> "unwrap on Err: InvalidUri"])
        ELSE Ok([path_and_query |-> path_and_query(m.account, scopes, audience),
                 is_service_to_service |-> IsSome(audience)])

\* impl token::Fetcher for Metadata, fetch: one get (the body as text) or
\* one get_as (the body as JSON) on the client, with a clone of
\* path_and_query; `sends` is what the client is given
Metadata_fetch(self) ==
    LET request == [path_and_query |-> self.path_and_query,
                    method |-> IF self.is_service_to_service THEN "get" ELSE "get_as"]
    IN  [sends |-> <<request>>, request |-> Some(request)]

\* every answer of the metadata server: a body of text, an access-token
\* document, a document the Response type does not take, or a failure
Bodies ==
    {Ok([text |-> <<"a">>]),
     Ok([token_type |-> <<"Bearer">>, access_token |-> <<"a">>, expires_in |-> 3600]),
     Ok([error |-> <<"a">>]),
     Err([err |-> "Http"])}

\* what the metadata server answers: the identity endpoint a token as text,
\* the token endpoint an access-token document; either may fail, and a
\* body may be no JSON the Response type takes
Replies(request) ==
    IF request.method = "get"
    THEN {Ok([text |-> <<"a">>]), Err([err |-> "Http"])}
    ELSE {Ok([token_type |-> <<"Bearer">>, access_token |-> <<"a">>, expires_in |-> 3600]),
          Ok([error |-> <<"a">>]),
          Err([err |-> "Http"])}

\* what the future of fetch resolves to: get(..).map_ok(IdToken).map_err(Gcemeta),
\* or get_as(..).map_err(Gcemeta), where get_as deserializes the body into
\* the untagged Response
Metadata_resolve(request, reply) ==
    IF reply.tag = "Err" THEN Err([err |-> "Gcemeta", source |-> reply.val])
    ELSE IF request.method = "get" THEN Ok([type |-> "IdToken", id_token |-> reply.val.text])
    ELSE IF DOMAIN reply.val = {"token_type", "access_token", "expires_in"}
    THEN Ok([type |-> "AccessToken", token_type |-> reply.val.token_type,
             access_token |-> reply.val.access_token,
             expires_in |-> reply.val.expires_in])
    ELSE IF DOMAIN reply.val = {"id_token"}
    THEN Ok([type |-> "IdToken", id_token |-> reply.val.id_token])
    ELSE Err([err |-> "Gcemeta", source |-> [err |-> "Json"]])

\* Metadata::new on the credentials build() returned
Metadata_new_call ==
    /\ IsSome(outcome) /\ Unwrap(outcome).tag = "Ok"
    /\ Unwrap(outcome).val.kind = "Metadata"
    /\ mfetcher = None
    /\ mfetcher' = Some(Metadata_new(Unwrap(outcome).val))
    /\ UNCHANGED <<calls, sent, resolveVars, tokenVars, pathVars, saVars>>

\* a caller calls fetch() on the shared Metadata fetcher and holds the
\* future it returned
Metadata_fetch_call ==
    /\ IsSome(mfetcher) /\ Unwrap(mfetcher).tag = "Ok"
    /\ Len(calls) < MaxCalls
    /\ LET f == Metadata_fetch(Unwrap(mfetcher).val)
       IN  /\ calls' = Append(calls, [on |-> "Metadata", at |-> 0, request |-> f.request,
                                      state |-> "pending", result |-> None])
           /\ sent' = sent \o f.sends
    /\ UNCHANGED <<mfetcher, resolveVars, tokenVars, pathVars, saVars>>

\* a caller calls fetch() on the shared ServiceAccount fetcher at the clock
\* reading `wall`; time then moves on to t.  A fetch that panics in
\* encode(..).unwrap() gives its caller no future and the client no request.
ServiceAccount_fetch_call(t) ==
    /\ IsSome(fetcher) /\ Unwrap(fetcher).tag = "Ok"
    /\ Len(calls) < MaxCalls
    /\ t >= wall
    /\ wall' = t
    /\ LET f == fetch(Unwrap(fetcher).val, None)
       IN  /\ calls' = Append(calls,
                  [on |-> "ServiceAccount", at |-> wall, request |-> f.request,
                   state |-> IF IsSome(f.request) THEN "pending" ELSE "aborted",
                   result |-> IF IsSome(f.request) THEN None ELSE Some(f.result)])
           /\ sent' = sent \o f.request
    /\ UNCHANGED <<sa, fetcher, fetched, mfetcher, resolveVars, tokenVars, pathVars>>

\* the future of a Metadata fetch is polled to its end, the server having
\* answered `reply`
Metadata_future_ready(i, reply) ==
    /\ i <= Len(calls)
    /\ calls[i].on = "Metadata" /\ calls[i].state = "pending"
    /\ reply \in Replies(Unwrap(calls[i].request))
    /\ calls' = [calls EXCEPT ![i].state = "ready",
                              ![i].result = Some(Metadata_resolve(Unwrap(calls[i].request), reply))]
    /\ UNCHANGED <<mfetcher, sent, resolveVars, tokenVars, pathVars, saVars>>

\* the future of a ServiceAccount fetch is polled to its end
ServiceAccount_future_ready(i, exchange) ==
    /\ i <= Len(calls)
    /\ calls[i].on = "ServiceAccount" /\ calls[i].state = "pending"
    /\ calls' = [calls EXCEPT ![i].state = "ready", ![i].result = Some(exchange)]
    /\ UNCHANGED <<mfetcher, sent, resolveVars, tokenVars, pathVars, saVars>>

\* the caller drops the future before it is ready
Future_drop(i) ==
    /\ i <= Len(calls)
    /\ calls[i].state = "pending"
    /\ calls' = [calls EXCEPT ![i].state = "dropped"]
    /\ UNCHANGED <<mfetcher, sent, resolveVars, tokenVars, pathVars, saVars>>

\* FetchSpec: one fetcher shared by the callers of fetch().  Either the
\* builder resolves Metadata credentials (no credentials file, the probe
\* answering any way) and Metadata::new makes the fetcher of them, or
\* ServiceAccount::new makes it of service-account credentials.
FetchInit ==
    /\ builder = Builder_default
    /\ env \in {[var |-> [st |-> "NotPresent"],
                 files |-> [p \in Paths |-> [st |-> "NotFound"]],
                 gce |-> g] : g \in ProbeStates}
    /\ outcome = None
    /\ reads = <<>>
    /\ sa \in Option(ServiceAccounts)
    /\ IsSome(sa) => env.gce = "off"
    /\ fetcher = None
    /\ wall = MinWall
    /\ fetched = <<>>
    /\ IdleToken /\ IdlePath /\ IdleFetch

FetchNext ==
    \/ \E account \in {None, Some(<<"a">>)} : Builder_metadata(account)
    \/ \E scopes \in ScopeLists : Builder_scopes(scopes)
    \/ \E audience \in Audiences : Builder_audience(audience)
    \/ Builder_build
    \/ Metadata_new_call
    \/ Metadata_fetch_call
    \/ ServiceAccount_new_call
    \/ \E t \in MinWall..MaxWall : ServiceAccount_fetch_call(t)
    \/ \E i \in 1..MaxCalls, reply \in Bodies : Metadata_future_ready(i, reply)
    \/ \E i \in 1..MaxCalls, exchange \in Exchanges : ServiceAccount_future_ready(i, exchange)
    \/ \E i \in 1..MaxCalls : Future_drop(i)

FetchSpec == FetchInit /\ [][FetchNext]_vars

-----------------------------------------------------------------------------
(* Claims about the Metadata fetcher and about concurrent fetches *)

\* the Metadata fetcher made of the credentials build() returned
MetadataFetcher == Unwrap(mfetcher).val
HasMetadataFetcher == IsSome(mfetcher) /\ Unwrap(mfetcher).tag = "Ok"

\* every reply a fetch on the Metadata fetcher has handed its caller is of
\* the Response variant `type`
Yields(type) ==
    \A i \in 1..Len(calls) :
        (/\ calls[i].on = "Metadata"
         /\ calls[i].state = "ready"
         /\ Unwrap(calls[i].result).tag = "Ok")
            => Unwrap(calls[i].result).val.type = type

\* ".../service-accounts/<account or default>" of the credentials built
Prefix ==
    "/computeMetadata/v1/instance/service-accounts/"
        \o (IF IsSome(Unwrap(outcome).val.account)
            THEN Flat(Unwrap(Unwrap(outcome).val.account)) ELSE "default")

\* the token path for the scopes configured on the builder
TokenPath ==
    LET scopes == [i \in 1..Len(builder.scopes) |-> into_string(builder.scopes[i])]
    IN  IF scopes = <<>> THEN Prefix \o "/token"
        ELSE Prefix \o "/token?scopes=" \o EncodedScopes(scopes)

\* C11: when an audience has been configured on the Builder and build() has
\* returned Metadata credentials, the Metadata fetcher made of them targets
\* ".../identity?audience=<encoded audience>", is flagged as producing an
\* identity token, and its fetch hands back Response::IdToken; when no
\* audience has been configured it targets ".../token", is not flagged, and
\* its fetch hands back Response::AccessToken.
C11_AudienceReachesFetcher ==
    HasMetadataFetcher =>
        /\ builder.audience = Some("https://some-service.url") =>
              /\ MetadataFetcher.path_and_query =
                    Prefix \o "/identity?audience=https%3A%2F%2Fsome-service.url"
              /\ MetadataFetcher.is_service_to_service
              /\ Yields("IdToken")
        /\ builder.audience = None =>
              /\ MetadataFetcher.path_and_query = TokenPath
              /\ ~MetadataFetcher.is_service_to_service
              /\ Yields("AccessToken")

\* the request a fetch() call builds of the configuration of the fetcher it
\* was made on, as that configuration stands now, and of its own clock
\* reading
RequestOf(call) ==
    IF call.on = "Metadata"
    THEN [path_and_query |-> MetadataFetcher.path_and_query,
          method |-> IF MetadataFetcher.is_service_to_service THEN "get" ELSE "get_as"]
    ELSE LET self == Unwrap(fetcher).val
         IN  [uri |-> self.token_uri,
              grant_type |-> "urn:ietf:params:oauth:grant-type:jwt-bearer",
              assertion |-> [header |-> self.header,
                             claims |-> Claims(self, call.at - 10),
                             key |-> self.private_key]]

\* C12: however the fetch() calls on one fetcher, the completions of their
\* futures and the drops of their futures interleave, the client has been
\* given exactly one request for each fetch() call made so far (none is
\* saved by a cache or by joining a pending call, none is added by a retry
\* after a failure), the i-th request is the i-th call's own, and it is the
\* request the fetcher's configuration and the call's own clock reading
\* determine, whatever the other calls have done to the fetcher.
C12_OneRequestPerFetch ==
    /\ Len(sent) = Len(calls)
    /\ \A i \in 1..Len(calls) :
          /\ i <= Len(sent)
          /\ calls[i].request = Some(sent[i])
          /\ sent[i] = RequestOf(calls[i])

====
